---- MODULE Spec2Model ----
(***************************************************************************)
(* Verification model of the feather block-state registry                  *)
(* (libcraft/blocks/src/registry.rs), of the physics helper                *)
(* nearby_entities (server/src/physics/math.rs) and of the block-change    *)
(* event iterators (feather/common/src/events/block_change.rs).            *)
(*                                                                         *)
(* Spec        : the lazily built REGISTRY singleton, the threads that     *)
(*               force it, and the BlockState handle operations.           *)
(* SpecNearby  : nearby_entities / chunks_within_distance as functions of  *)
(*               their inputs.                                             *)
(* SpecSection : iter_section_blocks as a function of its inputs.          *)
(* SpecEvent   : the BlockChangeEvent constructors and its three readers.  *)
(* SpecNew     : BlockRegistry::new as a function of the decoded tables,   *)
(*               tables whose stored ids are off included.                 *)
(***************************************************************************)
EXTENDS Integers, Sequences, FiniteSets, TLC

VARIABLES
    STATE_DATA,        \* rows decoded from assets/raw_block_states.bc.gz
    PROPERTY_DATA,     \* rows decoded from assets/raw_block_properties.bc.gz
    debug_assertions,  \* cfg(debug_assertions) of the build
    REGISTRY,          \* the Lazy<BlockRegistry> cell: [state, value]
    pc,                \* per thread: position in its first registry access
    built,             \* per thread: the value BlockRegistry::new returned to it
    builds,            \* number of times BlockRegistry::new has run
    observed,          \* the cell contents readers have dereferenced
    handle,            \* the BlockState value under manipulation (Option)
    origin,            \* how the constructor of `handle` obtained its id
    ret,               \* the last BlockState operation, its inputs and result
    ne_in,             \* nearby_entities: its inputs
    ne_out,            \* nearby_entities: its result (Option)
    sb_in,             \* iter_section_blocks: its inputs
    sb_out,            \* iter_section_blocks: its result (Option)
    ev,                \* the BlockChangeEvent under inspection
    ev_out,            \* what count / iter_changed_blocks /
                       \* iter_affected_chunk_sections returned for it
    new_out            \* BlockRegistry::new called on the tables: its result

regVars == <<STATE_DATA, PROPERTY_DATA, REGISTRY, pc, built, builds,
             observed, handle, origin, ret>>
neVars == <<ne_in, ne_out>>
sbVars == <<sb_in, sb_out>>
evVars == <<ev, ev_out>>
vars == <<regVars, debug_assertions, neVars, sbVars, evVars, new_out>>

(***************************************************************************)
(* Bounds of the model.                                                    *)
(***************************************************************************)
NumThreads == 2      \* threads racing for the first registry access
MaxId == 5           \* handle ids 0..MaxId are exercised (tables have <= 5 rows)
MaxPairs == 2        \* longest (name, value) list passed to the untyped lookup

Threads == 1..NumThreads
U16Max == 2^16 - 1
Ids == (0..MaxId) \cup {U16Max}

\* Option<T>: None is the empty sequence, Some(x) the one-element sequence.
None == <<>>
Some(x) == <<x>>

(***************************************************************************)
(* The data shapes of crate::data and the bundled tables.                  *)
(***************************************************************************)
BlockKind == {"stone", "chest", "lever"}

\* BlockKind::namespaced_id
namespaced_id_of(kind) == "minecraft:" \o kind

PropNames == {"type", "powered"}

\* The string values each property may take, in their typed order: the typed
\* encoding of a value is its index here, 0 is Option::None.
PropDomain == [type |-> <<"single", "left">>, powered |-> <<"true", "false">>]

NoProps == [p \in PropNames |-> 0]

\* All assignments of typed values to the property names of `props`.
RECURSIVE Combos(_)
Combos(props) ==
    IF props = <<>> THEN << NoProps >>
    ELSE LET rest == Combos(Tail(props))
             p == Head(props)
             n == Len(PropDomain[p])
         IN [i \in 1..(n * Len(rest)) |->
                [rest[((i - 1) % Len(rest)) + 1] EXCEPT ![p] = ((i - 1) \div Len(rest)) + 1]]

\* The untyped (name, value) string list of a typed assignment, in the order
\* the table stores the property names.
UntypedOf(props, vals) ==
    [i \in 1..Len(props) |-> <<props[i], PropDomain[props[i]][vals[props[i]]]>>]

\* The rows of one kind: every combination of its properties, one default.
KindRows(d) ==
    LET cs == Combos(d.props)
    IN [i \in 1..Len(cs) |->
          [kind |-> d.kind,
           properties |-> [kind |-> d.kind, vals |-> cs[i]],
           untyped_properties |-> UntypedOf(d.props, cs[i]),
           default |-> (i = d.default)]]

RECURSIVE ConcatRows(_)
ConcatRows(ds) ==
    IF ds = <<>> THEN <<>> ELSE KindRows(Head(ds)) \o ConcatRows(Tail(ds))

\* The state table the generator emits for a list of kind descriptions:
\* rows grouped by kind, the stored id of a row is its index.
GenStates(ds) ==
    LET rows == ConcatRows(ds)
    IN [i \in 1..Len(rows) |->
          [id |-> i - 1,
           kind |-> rows[i].kind,
           properties |-> rows[i].properties,
           untyped_properties |-> rows[i].untyped_properties,
           default |-> rows[i].default]]

\* The property-domain table: one RawBlockProperties row per kind.
GenProperties(ds) ==
    [i \in 1..Len(ds) |->
        [kind |-> ds[i].kind,
         valid_properties |-> [j \in 1..Len(ds[i].props) |->
                                  <<ds[i].props[j], PropDomain[ds[i].props[j]]>>]]]

KD(k, ps, d) == [kind |-> k, props |-> ps, default |-> d]

\* The bundles the model is run on.
Bundles ==
    { << KD("stone", <<>>, 1) >>,
      << KD("stone", <<>>, 1), KD("chest", <<"type">>, 1) >>,
      << KD("chest", <<"type", "powered">>, 3), KD("stone", <<>>, 1) >>,
      << KD("lever", <<"powered">>, 2), KD("chest", <<"type">>, 2) >>,
      << KD("chest", <<"type">>, 1), KD("lever", <<"type">>, 2) >> }

(***************************************************************************)
(* BlockData: the typed property views.                                    *)
(***************************************************************************)
\* The properties each view type is responsible for.
ViewProps == [ChestData |-> {"type"}, LeverData |-> {"powered"},
              SwitchData |-> {"type", "powered"}]
Views == DOMAIN ViewProps

\* The values of view type T: one typed value per property it covers.
DataValues(T) == [ViewProps[T] -> 1..2]

\* A view value padded to all property names (0 where T has no field), so that
\* every recorded view value has the same shape.
Pad(T, d) == [p \in PropNames |-> IF p \in ViewProps[T] THEN d[p] ELSE 0]

\* BlockData::from_raw: Some(view) when every field of T is present in raw.
BlockData_from_raw(T, raw) ==
    IF \A p \in ViewProps[T] : raw.vals[p] # 0
    THEN Some([p \in PropNames |-> IF p \in ViewProps[T] THEN raw.vals[p] ELSE 0])
    ELSE None

\* BlockData::apply: every field of the view replaces the raw property.
BlockData_apply(T, d, raw) ==
    [raw EXCEPT !.vals = [p \in PropNames |->
                             IF p \in ViewProps[T] THEN d[p] ELSE raw.vals[p]]]

(***************************************************************************)
(* BlockRegistry                                                           *)
(***************************************************************************)
\* Iterator::collect into a hash map: entries are inserted in order, a later
\* entry with an equal key replaces the earlier one.
RECURSIVE CollectMap(_)
CollectMap(entries) ==
    IF entries = <<>> THEN <<>>
    ELSE LET n == Len(entries)
             m == CollectMap(SubSeq(entries, 1, n - 1))
             e == entries[n]
         IN [k \in (DOMAIN m) \cup {e[1]} |-> IF k = e[1] THEN e[2] ELSE m[k]]

\* Variant: the filter keeps the rows that are not the default.
RECURSIVE FilterDefault_Negated(_)
FilterDefault_Negated(rows) ==
    IF rows = <<>> THEN <<>>
    ELSE IF ~Head(rows).default
         THEN <<Head(rows)>> \o FilterDefault_Negated(Tail(rows))
         ELSE FilterDefault_Negated(Tail(rows))

\* Iterator::filter on a sequence.
RECURSIVE FilterDefault(_)
FilterDefault(rows) ==
    IF rows = <<>> THEN <<>>
    ELSE IF Head(rows).default
         THEN <<Head(rows)>> \o FilterDefault(Tail(rows))
         ELSE FilterDefault(Tail(rows))

\* Variant: the map stores the one-based position of the row.
IdMappingOf_OneBased(states) ==
    CollectMap([i \in 1..Len(states) |-> <<states[i].properties, i>>])

IdMappingOf(states) ==
    CollectMap([i \in 1..Len(states) |-> <<states[i].properties, states[i].id>>])

ValidPropertiesOf(properties) ==
    CollectMap([i \in 1..Len(properties) |->
                   <<properties[i].kind, properties[i].valid_properties>>])

\* Variant: the default_states map is collected without the filter.
DefaultStatesOf_NoFilter(states) ==
    CollectMap([i \in 1..Len(states) |-> <<states[i].kind, states[i].id>>])

DefaultStatesOf(states) ==
    LET ds == FilterDefault(states)
    IN CollectMap([i \in 1..Len(ds) |-> <<ds[i].kind, ds[i].id>>])

\* Variant: the key holds the namespaced id alone.
ByUntypedReprOf_KindOnly(states) ==
    CollectMap([i \in 1..Len(states) |->
                   << <<namespaced_id_of(states[i].kind), <<>> >>, states[i].id >>])

\* Variant: the key holds the property strings alone, under one name.
ByUntypedReprOf_OneName(states) ==
    CollectMap([i \in 1..Len(states) |->
                   << <<namespaced_id_of(states[1].kind), states[i].untyped_properties>>,
                      states[i].id >>])

ByUntypedReprOf(states) ==
    CollectMap([i \in 1..Len(states) |->
                   << <<namespaced_id_of(states[i].kind), states[i].untyped_properties>>,
                      states[i].id >>])

\* Variant: the first row alone is checked.
IndexesMatchIds_FirstRowOnly(states) == states = <<>> \/ states[1].id = 0

\* The debug-build check that every row's stored id is its index.
IndexesMatchIds(states) == \A i \in 1..Len(states) : states[i].id = i - 1

\* BlockRegistry::new: Some(registry), or None when an assertion fails.
BlockRegistry_new(states, properties, debug) ==
    IF debug /\ ~IndexesMatchIds(states) THEN None
    ELSE Some([states |-> states,
               id_mapping |-> IdMappingOf(states),
               valid_properties |-> ValidPropertiesOf(properties),
               default_states |-> DefaultStatesOf(states),
               by_untyped_repr |-> ByUntypedReprOf(states)])

\* Variant: the last row is out of reach.
raw_state_OffByOne(reg, id) ==
    IF id < Len(reg.states) - 1 THEN Some(reg.states[id + 1]) ELSE None

\* BlockRegistry::raw_state: self.states.get(id as usize)
raw_state(reg, id) ==
    IF id < Len(reg.states) THEN Some(reg.states[id + 1]) ELSE None

\* BlockRegistry::id_for_state
id_for_state(reg, raw) ==
    IF raw \in DOMAIN reg.id_mapping THEN Some(reg.id_mapping[raw]) ELSE None

\* BlockRegistry::default_state: indexing the map panics on a missing key
\* (None here).
default_state(reg, kind) ==
    IF kind \in DOMAIN reg.default_states THEN Some(reg.default_states[kind]) ELSE None

\* BlockRegistry::id_for_untyped_repr
\* Variant: the pairs are matched as a set.
id_for_untyped_repr_Unordered(reg, nsid, pairs) ==
    LET hits == {key \in DOMAIN reg.by_untyped_repr :
                    /\ key[1] = nsid
                    /\ {key[2][i] : i \in 1..Len(key[2])}
                          = {pairs[i] : i \in 1..Len(pairs)}}
    IN IF hits # {}
       THEN Some(reg.by_untyped_repr[CHOOSE key \in hits : TRUE])
       ELSE None

\* BlockRegistry::id_for_untyped_repr: the pairs are collected into a Vec,
\* which is the second half of the key.
id_for_untyped_repr(reg, nsid, pairs) ==
    IF <<nsid, pairs>> \in DOMAIN reg.by_untyped_repr
    THEN Some(reg.by_untyped_repr[<<nsid, pairs>>])
    ELSE None

(***************************************************************************)
(* BlockState: the operations of the handle, as functions of the registry. *)
(* A panic is the result None of an operation that otherwise returns       *)
(* Some(value).                                                            *)
(***************************************************************************)
\* BlockState::new
BlockState_new(reg, kind) == default_state(reg, kind)

\* Variant: the id is not looked up.
BlockState_from_id_Unchecked(reg, id) == Some(id)

\* BlockState::from_id
BlockState_from_id(reg, id) ==
    IF raw_state(reg, id) # None THEN Some(id) ELSE None

\* BlockState::is_valid
is_valid(reg, id) == raw_state(reg, id) # None

\* BlockState::raw: expect("bad block") panics on an id that indexes no row.
raw(reg, id) == raw_state(reg, id)

\* Variant: a miss falls back to the first state.
from_raw_OrFirst(reg, rawprops) ==
    IF id_for_state(reg, rawprops) # None THEN id_for_state(reg, rawprops) ELSE Some(0)

\* BlockState::from_raw
from_raw(reg, rawprops) == id_for_state(reg, rawprops)

\* BlockState::kind
kind_of(reg, id) ==
    IF raw(reg, id) = None THEN None ELSE Some(raw(reg, id)[1].kind)

\* BlockState::is_default
is_default(reg, id) ==
    IF raw(reg, id) = None THEN None ELSE Some(raw(reg, id)[1].default)

\* BlockState::namespaced_id
namespaced_id(reg, id) ==
    IF kind_of(reg, id) = None THEN None
    ELSE Some(namespaced_id_of(kind_of(reg, id)[1]))

\* BlockState::property_values
property_values(reg, id) ==
    IF raw(reg, id) = None THEN None ELSE Some(raw(reg, id)[1].untyped_properties)

\* BlockState::from_namespaced_id_and_property_values
from_namespaced_id_and_property_values(reg, nsid, pairs) ==
    id_for_untyped_repr(reg, nsid, pairs)

\* BlockState::get_valid_properties: raw() and the unwrap of the map lookup
\* both panic.
get_valid_properties(reg, id) ==
    IF raw(reg, id) = None THEN None
    ELSE IF raw(reg, id)[1].kind \in DOMAIN reg.valid_properties
         THEN Some(reg.valid_properties[raw(reg, id)[1].kind])
         ELSE None

\* BlockState::data_as: None is a panic, Some(None) "not an instance of T",
\* Some(Some(view)) the decoded view.
data_as(reg, id, T) ==
    IF raw(reg, id) = None \/ get_valid_properties(reg, id) = None THEN None
    ELSE Some(BlockData_from_raw(T, raw(reg, id)[1].properties))

\* BlockState::set_data: the id of the handle afterwards, None is a panic.
set_data(reg, id, T, d) ==
    IF raw(reg, id) = None THEN None
    ELSE LET raw2 == BlockData_apply(T, d, raw(reg, id)[1].properties)
             new_block == from_raw(reg, raw2)
         IN IF new_block # None THEN Some(new_block[1]) ELSE Some(id)

(***************************************************************************)
(* static REGISTRY: Lazy<BlockRegistry> = Lazy::new(BlockRegistry::new)    *)
(* The cell is incomplete, running (one thread runs the initializer, the   *)
(* others wait) or complete (the value is published).                      *)
(***************************************************************************)
LazyNew == [state |-> "incomplete", value |-> None]

\* The fast path of a dereference: the value may be read once complete.
Lazy_is_complete(cell) == cell.state = "complete"

\* Variant: the cell is not marked as being initialized.
Lazy_claim_Unmarked(cell) == cell

\* The thread that finds the cell incomplete claims the initialization.
Lazy_claim(cell) == [cell EXCEPT !.state = "running"]

\* The initializer's value is published and the waiters are released.
Lazy_publish(cell, value) == [state |-> "complete", value |-> Some(value)]

\* The registry a reader works on.
Reg == REGISTRY.value[1]

(***************************************************************************)
(* The record of the last handle operation.                                *)
(***************************************************************************)
NoRet == [op |-> "none", id |-> 0, kind |-> "", nsid |-> "", pairs |-> <<>>,
          view |-> "", data |-> NoProps, pre |-> None, tag |-> "unit", val |-> 0]

AllPairs == {<<p, PropDomain[p][i]>> : p \in PropNames, i \in 1..2}
\* The (name, value) lists passed to the untyped lookup: at most MaxPairs
\* pairs, no property name twice.
PairSeqs ==
    {ps \in UNION {[1..n -> AllPairs] : n \in 0..MaxPairs} :
        \A i, j \in 1..Len(ps) : i # j => ps[i][1] # ps[j][1]}
\* A list naming every property, followed by a second value for the
\* property it names first.
SuperSeqs ==
    UNION {{ps \o <<q>> : q \in {a \in AllPairs : a[1] = ps[1][1] /\ a # ps[1]}} :
              ps \in {p \in PairSeqs : Len(p) = Cardinality(PropNames)}}
LookupSeqs == PairSeqs \cup SuperSeqs
NamespacedIds == {namespaced_id_of(k) : k \in BlockKind}

BoolVal(b) == IF b THEN 1 ELSE 0

(***************************************************************************)
(* Specification Spec: initial state.                                      *)
(***************************************************************************)
NeIdle == [rounding |-> "floor", pos |-> <<0, 0, 0>>, radius |-> <<0, 0, 0>>, epos |-> <<>>]
SbIdle == [chunk |-> <<0, 0>>, section |-> 0]
EvIdle == [variant |-> "none", pos |-> <<0, 0, 0>>, chunk |-> <<0, 0>>, section |-> 0]
EvNoOut == [count |-> None, changed |-> None, affected |-> None]

Init ==
    /\ \E ds \in Bundles :
          /\ STATE_DATA = GenStates(ds)
          /\ PROPERTY_DATA = GenProperties(ds)
    /\ debug_assertions \in BOOLEAN
    /\ REGISTRY = LazyNew
    /\ pc = [t \in Threads |-> "start"]
    /\ built = [t \in Threads |-> None]
    /\ builds = 0
    /\ observed = {}
    /\ handle = None
    /\ origin = "none"
    /\ ret = NoRet
    /\ ne_in = NeIdle /\ ne_out = None
    /\ sb_in = SbIdle /\ sb_out = None
    /\ ev = EvIdle /\ ev_out = EvNoOut
    /\ new_out = None

othersUnchanged == UNCHANGED <<debug_assertions, neVars, sbVars, evVars, new_out>>
dataUnchanged == UNCHANGED <<STATE_DATA, PROPERTY_DATA>>

(***************************************************************************)
(* First access of a thread: Lazy::force.                                  *)
(***************************************************************************)
\* The cell is complete: the thread reads the published value.
ForceFast(t) ==
    /\ pc[t] = "start"
    /\ Lazy_is_complete(REGISTRY)
    /\ pc' = [pc EXCEPT ![t] = "ready"]
    /\ observed' = observed \cup {REGISTRY.value}
    /\ UNCHANGED <<REGISTRY, built, builds, handle, origin, ret>>
    /\ dataUnchanged /\ othersUnchanged

\* The cell is incomplete: the thread becomes the initializer.
ForceClaim(t) ==
    /\ pc[t] = "start"
    /\ REGISTRY.state = "incomplete"
    /\ REGISTRY' = Lazy_claim(REGISTRY)
    /\ pc' = [pc EXCEPT ![t] = "init"]
    /\ UNCHANGED <<built, builds, observed, handle, origin, ret>>
    /\ dataUnchanged /\ othersUnchanged

\* The initializer runs BlockRegistry::new.
RunNew(t) ==
    /\ pc[t] = "init"
    /\ BlockRegistry_new(STATE_DATA, PROPERTY_DATA, debug_assertions) # None
    /\ built' = [built EXCEPT ![t] =
                    BlockRegistry_new(STATE_DATA, PROPERTY_DATA, debug_assertions)]
    /\ builds' = builds + 1
    /\ pc' = [pc EXCEPT ![t] = "store"]
    /\ UNCHANGED <<REGISTRY, observed, handle, origin, ret>>
    /\ dataUnchanged /\ othersUnchanged

\* The initializer moves the value into the cell, publishes it and reads it.
Publish(t) ==
    /\ pc[t] = "store"
    /\ REGISTRY' = Lazy_publish(REGISTRY, built[t][1])
    /\ built' = [built EXCEPT ![t] = None]
    /\ pc' = [pc EXCEPT ![t] = "ready"]
    /\ observed' = observed \cup {REGISTRY'.value}
    /\ UNCHANGED <<builds, handle, origin, ret>>
    /\ dataUnchanged /\ othersUnchanged

(***************************************************************************)
(* Handle operations.  Every one dereferences REGISTRY, so it is run by a  *)
(* thread that has been through its first access; the registry is          *)
(* immutable, so the result does not depend on which thread that is.  A    *)
(* panic unwinds the operation and is recorded as its outcome.  `handle`   *)
(* is the value the last constructor returned (None when it returned None  *)
(* or panicked), as set_data has changed it since; `origin` tells how     *)
(* that constructor obtained the id.                                       *)
(***************************************************************************)
\* The operations that produce a handle; the others work on the one at hand.
Constructors == {"new", "from_id", "from_namespaced", "default", "deserialize", "pod"}

\* How a constructor obtains the id: looked up in the registry, the derived
\* Default, or taken as given (the derived Deserialize and Pod).
OriginOf(op) ==
    IF op \in {"new", "from_id", "from_namespaced"} THEN "registry"
    ELSE IF op = "default" THEN "default" ELSE "raw"

\* What every handle operation does around its own effect.
Op(newHandle, r) ==
    /\ \E t \in Threads : pc[t] = "ready"
    /\ Lazy_is_complete(REGISTRY)
    /\ observed' = observed \cup {REGISTRY.value}
    /\ handle' = newHandle
    /\ origin' = IF r.op \in Constructors
                 THEN (IF newHandle = None THEN "none" ELSE OriginOf(r.op))
                 ELSE origin
    /\ ret' = r
    /\ UNCHANGED <<REGISTRY, pc, built, builds>>
    /\ dataUnchanged /\ othersUnchanged

New ==
    \E kind \in BlockKind :
        LET res == BlockState_new(Reg, kind)
        IN Op(res,
              [NoRet EXCEPT !.op = "new", !.kind = kind,
                            !.tag = IF res = None THEN "panic" ELSE "some",
                            !.val = IF res = None THEN 0 ELSE res[1]])

FromId ==
    \E id \in Ids :
        LET res == BlockState_from_id(Reg, id)
        IN Op(res,
              [NoRet EXCEPT !.op = "from_id", !.id = id,
                            !.tag = IF res = None THEN "none" ELSE "some",
                            !.val = IF res = None THEN 0 ELSE res[1]])

FromNamespaced ==
    \E nsid \in NamespacedIds, pairs \in LookupSeqs :
        LET res == from_namespaced_id_and_property_values(Reg, nsid, pairs)
        IN Op(res,
              [NoRet EXCEPT !.op = "from_namespaced", !.nsid = nsid, !.pairs = pairs,
                            !.tag = IF res = None THEN "none" ELSE "some",
                            !.val = IF res = None THEN 0 ELSE res[1]])

SetData ==
    /\ handle # None
    /\ \E T \in Views : \E d \in DataValues(T) :
        LET res == set_data(Reg, handle[1], T, d)
        IN Op(IF res = None THEN handle ELSE res,
              [NoRet EXCEPT !.op = "set_data", !.view = T, !.data = Pad(T, d),
                            !.pre = handle,
                            !.tag = IF res = None THEN "panic" ELSE "unit"])

DataAs ==
    /\ handle # None
    /\ \E T \in Views :
        LET res == data_as(Reg, handle[1], T)
        IN Op(handle,
              [NoRet EXCEPT !.op = "data_as", !.view = T,
                            !.tag = IF res = None THEN "panic"
                                    ELSE IF res[1] = None THEN "none" ELSE "some",
                            !.data = IF res = None \/ res[1] = None THEN NoProps
                                     ELSE res[1][1]])

Kind ==
    /\ handle # None
    /\ LET res == kind_of(Reg, handle[1])
       IN Op(handle,
             [NoRet EXCEPT !.op = "kind",
                           !.tag = IF res = None THEN "panic" ELSE "some",
                           !.kind = IF res = None THEN "" ELSE res[1]])

IsDefault ==
    /\ handle # None
    /\ LET res == is_default(Reg, handle[1])
       IN Op(handle,
             [NoRet EXCEPT !.op = "is_default",
                           !.tag = IF res = None THEN "panic" ELSE "some",
                           !.val = IF res = None THEN 0 ELSE BoolVal(res[1])])

PropertyValues ==
    /\ handle # None
    /\ LET res == property_values(Reg, handle[1])
           ns == namespaced_id(Reg, handle[1])
       IN Op(handle,
             [NoRet EXCEPT !.op = "property_values",
                           !.tag = IF res = None THEN "panic" ELSE "some",
                           !.nsid = IF ns = None THEN "" ELSE ns[1],
                           !.pairs = IF res = None THEN <<>> ELSE res[1]])

IsValid ==
    /\ handle # None
    /\ Op(handle,
          [NoRet EXCEPT !.op = "is_valid", !.tag = "some",
                        !.val = BoolVal(is_valid(Reg, handle[1]))])

\* #[derive(Default)]: the id is u16::default().
Default ==
    Op(Some(0), [NoRet EXCEPT !.op = "default", !.tag = "some"])

\* #[derive(Deserialize)]: the id is whatever u16 the input holds.
Deserialize ==
    \E id \in Ids :
        Op(Some(id), [NoRet EXCEPT !.op = "deserialize", !.id = id,
                                   !.tag = "some", !.val = id])

\* #[derive(Zeroable, Pod)]: any two bytes cast to a BlockState.
PodCast ==
    \E id \in Ids :
        Op(Some(id), [NoRet EXCEPT !.op = "pod", !.id = id,
                                   !.tag = "some", !.val = id])

Next ==
    \/ \E t \in Threads : ForceFast(t)
    \/ \E t \in Threads : ForceClaim(t)
    \/ \E t \in Threads : RunNew(t)
    \/ \E t \in Threads : Publish(t)
    \/ New
    \/ FromId
    \/ FromNamespaced
    \/ SetData
    \/ DataAs
    \/ Kind
    \/ IsDefault
    \/ PropertyValues
    \/ IsValid
    \/ Default
    \/ Deserialize
    \/ PodCast

Spec == Init /\ [][Next]_vars

(***************************************************************************)
(* Properties of Spec.                                                     *)
(***************************************************************************)
StateCount == Len(Reg.states)
ValidIds == 0..(StateCount - 1)

\* C1: from_id(i) returns Some(state) exactly when i < states.len(); the
\* state returned is valid and its id() is i; otherwise it returns None.
C1_FromIdExactlyInRange ==
    ret.op = "from_id" =>
        /\ (ret.tag = "some") <=> (ret.id < StateCount)
        /\ ret.tag = "some" =>
              /\ handle = Some(ret.id)
              /\ ret.val = ret.id
              /\ is_valid(Reg, handle[1])
        /\ ret.tag # "some" => (ret.tag = "none" /\ handle = None)

\* from_id has returned the state of the last row of a table of several rows.
C1_Witness ==
    /\ ret.op = "from_id"
    /\ ret.tag = "some"
    /\ StateCount > 1
    /\ ret.id = StateCount - 1

\* C2: the untyped lookup of a valid state's namespaced id and property
\* values returns that state.
C2_UntypedRoundTrip ==
    ret.op = "from_namespaced" =>
        \A i \in ValidIds :
            (/\ namespaced_id(Reg, i) = Some(ret.nsid)
             /\ property_values(Reg, i) = Some(ret.pairs))
            => (ret.tag = "some" /\ handle = Some(i) /\ ret.val = i)

\* The lookup was given the representation of a state with two properties
\* that is not the first row.
C2_Witness ==
    /\ ret.op = "from_namespaced"
    /\ Len(ret.pairs) = 2
    /\ \E i \in ValidIds :
          /\ i > 0
          /\ namespaced_id(Reg, i) = Some(ret.nsid)
          /\ property_values(Reg, i) = Some(ret.pairs)

\* The rows of the loaded table owned by a kind.
RowsOfKind(kind) == {i \in ValidIds : Reg.states[i + 1].kind = kind}

\* C3: for a kind that owns a row, exactly one state of the kind satisfies
\* is_default(), and new(kind) returns it without panicking.
C3_NewReturnsTheOneDefault ==
    (ret.op = "new" /\ RowsOfKind(ret.kind) # {}) =>
        /\ ret.tag = "some"
        /\ handle # None
        /\ {i \in RowsOfKind(ret.kind) : is_default(Reg, i) = Some(TRUE)} = {handle[1]}

\* new was called for a kind with several states whose default is not its
\* last row.
C3_Witness ==
    /\ ret.op = "new"
    /\ ret.tag = "some"
    /\ \E i \in RowsOfKind(ret.kind) : i > handle[1]

\* C4: BlockRegistry::new runs at most once, a thread that is through its
\* first access finds it run exactly once, and every dereference observes
\* the one registry that new returned.
C4_BuiltOnceAndShared ==
    /\ builds <= 1
    /\ observed \subseteq {BlockRegistry_new(STATE_DATA, PROPERTY_DATA, debug_assertions)}
    /\ \A t \in Threads :
          pc[t] = "ready" => (builds = 1 /\ Lazy_is_complete(REGISTRY) /\ observed # {})
    /\ REGISTRY.state # "complete" => (REGISTRY.value = None /\ observed = {})

\* Every thread is through its first access and has used the registry.
C4_Witness ==
    /\ \A t \in Threads : pc[t] = "ready"
    /\ builds = 1
    /\ ret.op # "none"

\* The raw properties set_data looks up.
AppliedRaw == BlockData_apply(ret.view, ret.data, raw(Reg, ret.pre[1])[1].properties)

\* C5: set_data on a valid handle leaves the id unchanged, without a panic,
\* when the applied raw properties are no key of id_mapping, and makes it
\* the id mapped to the key otherwise.
C5_SetDataNoOpOrMapped ==
    (ret.op = "set_data" /\ is_valid(Reg, ret.pre[1])) =>
        /\ ret.tag = "unit"
        /\ AppliedRaw \notin DOMAIN Reg.id_mapping => handle = ret.pre
        /\ AppliedRaw \in DOMAIN Reg.id_mapping =>
              handle = Some(Reg.id_mapping[AppliedRaw])

\* set_data was given a combination that is not in the table, on a valid
\* handle other than the first state.
C5_Witness ==
    /\ ret.op = "set_data"
    /\ is_valid(Reg, ret.pre[1])
    /\ ret.pre[1] > 0
    /\ AppliedRaw \notin DOMAIN Reg.id_mapping

\* C6: set_data with the unmodified result of data_as leaves the id as it
\* was.
C6_TypedRoundTrip ==
    (/\ ret.op = "set_data"
     /\ is_valid(Reg, ret.pre[1])
     /\ data_as(Reg, ret.pre[1], ret.view) = Some(Some(ret.data)))
    => handle = ret.pre

\* set_data was given back the two-property view of a state.
C6_Witness ==
    /\ ret.op = "set_data"
    /\ is_valid(Reg, ret.pre[1])
    /\ ret.view = "SwitchData"
    /\ data_as(Reg, ret.pre[1], ret.view) = Some(Some(ret.data))

\* C7: is_default() is true exactly of the state new(kind()) returns.
C7_IsDefaultAgreesWithNew ==
    (ret.op = "is_default" /\ ret.tag = "some") =>
        ((ret.val = 1) <=> (BlockState_new(Reg, kind_of(Reg, handle[1])[1]) = handle))

\* is_default was asked of a state that is not its kind's default.
C7_Witness ==
    /\ ret.op = "is_default"
    /\ ret.tag = "some"
    /\ ret.val = 0

Accessors == {"kind", "is_default", "property_values", "data_as"}

\* C8 as stated: every handle that exists is valid and no accessor panics.
C8_EveryHandleValid ==
    /\ handle # None => is_valid(Reg, handle[1])
    /\ ret.op \in Accessors => ret.tag # "panic"

\* C8 as amended: a handle whose id was looked up in the registry (new,
\* from_id, from_namespaced_id_and_property_values) or is the derived Default
\* of a non-empty table is valid, stays valid under set_data, and no accessor
\* panics on it; the derived Deserialize and Pod take any id, and on the
\* handle they produce is_valid() is true and the accessors return exactly
\* when the id is below states.len().
C8_ValidUnlessTakenAsGiven ==
    /\ (handle # None /\ origin \in {"registry", "default"}) =>
          /\ is_valid(Reg, handle[1])
          /\ ret.op \in (Accessors \cup {"set_data"}) => ret.tag # "panic"
    /\ ret.op \in {"deserialize", "pod"} => handle = Some(ret.id)
    /\ (handle # None /\ ret.op = "is_valid") =>
          ((ret.val = 1) <=> (handle[1] < StateCount))
    /\ (handle # None /\ ret.op \in (Accessors \cup {"set_data"})) =>
          ((ret.tag = "panic") <=> ~(handle[1] < StateCount))

\* A handle obtained from the registry has been changed by set_data.
C8_Witness ==
    /\ origin = "registry"
    /\ ret.op = "set_data"
    /\ handle # ret.pre

(***************************************************************************)
(* nearby_entities (server/src/physics/math.rs).                           *)
(* Coordinates are f64 in the code; the model runs on whole numbers, on    *)
(* which the f64 operations used here (+, -, /16 then floor, *16, abs,     *)
(* comparisons) are exact.                                                 *)
(***************************************************************************)
MaxCoord == 17       \* positions lie in -MaxCoord..MaxCoord
MaxRadius == 17      \* radii lie in 0..MaxRadius (and -1, which panics)
NumEntities == 1     \* entities in the world

CHUNK_WIDTH == 16

Entities == 1..NumEntities

\* The coordinates exercised: those at and next to a chunk boundary.
NeCoords == {c \in (-MaxCoord)..MaxCoord : (c % CHUNK_WIDTH) \in {0, 1, CHUNK_WIDTH - 1}}
NeRadii == {r \in 0..MaxRadius : (r % CHUNK_WIDTH) \in {0, 1, 2}}

Abs(v) == IF v < 0 THEN -v ELSE v

\* Division by the chunk width, rounding down or towards zero.
ChunkCoord(rounding, v) ==
    IF rounding = "floor" \/ v >= 0 THEN v \div CHUNK_WIDTH
    ELSE -((-v) \div CHUNK_WIDTH)

\* Position::chunk_pos: the chunk of a position.  feather_core defines it;
\* the tests of math.rs go through only if it rounds towards zero, the usual
\* chunk grid rounds down: the model runs both.
chunk_pos(rounding, p) == <<ChunkCoord(rounding, p[1]), ChunkCoord(rounding, p[3])>>

\* ChunkEntities::entities_in_chunk: the entities indexed under the chunk,
\* each entity being indexed under the chunk that contains its position.
RECURSIVE EntitiesFrom(_, _, _, _)
EntitiesFrom(rounding, epos, chunk, e) ==
    IF e > NumEntities THEN <<>>
    ELSE (IF epos[e] # None /\ chunk_pos(rounding, epos[e][1]) = chunk
          THEN <<e>> ELSE <<>>)
         \o EntitiesFrom(rounding, epos, chunk, e + 1)

entities_in_chunk(rounding, epos, chunk) == EntitiesFrom(rounding, epos, chunk, 1)

\* One loop of chunks_within_distance: the number of chunk boundaries
\* within `distance` of coordinate `p`, walking in the positive direction.
RECURSIVE AxisLen(_, _)
AxisLen(p, distance) ==
    LET needed == ((p + 16) \div 16) * 16 - p
    IN IF needed > distance THEN 0
       ELSE 1 + AxisLen(p + needed, distance - needed)

\* chunks_within_distance, for distance.x >= 0 and distance.z >= 0: the
\* chunks center - len ..= center + len on each axis, x outermost.
chunks_within_distance(rounding, pos, distance) ==
    LET x_len == AxisLen(pos[1], distance[1])
        z_len == AxisLen(pos[3], distance[3])
        center == chunk_pos(rounding, pos)
        nz == 2 * z_len + 1
    IN [i \in 1..((2 * x_len + 1) * nz) |->
           <<center[1] - x_len + ((i - 1) \div nz),
             center[2] - z_len + ((i - 1) % nz)>>]

\* The filter of nearby_entities: the entity has a position and it lies in
\* the box around pos.
InBox(epos, e, pos, radius) ==
    /\ epos[e] # None
    /\ Abs(epos[e][1][1] - pos[1]) <= radius[1]
    /\ Abs(epos[e][1][2] - pos[2]) <= radius[2]
    /\ Abs(epos[e][1][3] - pos[3]) <= radius[3]

RECURSIVE FilterInBox(_, _, _, _)
FilterInBox(es, epos, pos, radius) ==
    IF es = <<>> THEN <<>>
    ELSE (IF InBox(epos, Head(es), pos, radius) THEN <<Head(es)>> ELSE <<>>)
         \o FilterInBox(Tail(es), epos, pos, radius)

RECURSIVE NearbyFrom(_, _, _, _, _)
NearbyFrom(rounding, chunks, epos, pos, radius) ==
    IF chunks = <<>> THEN <<>>
    ELSE FilterInBox(entities_in_chunk(rounding, epos, Head(chunks)), epos, pos, radius)
         \o NearbyFrom(rounding, Tail(chunks), epos, pos, radius)

\* nearby_entities: None is the panic of an assertion.
nearby_entities(rounding, epos, pos, radius) ==
    IF radius[1] < 0 \/ radius[2] < 0 \/ radius[3] < 0 THEN None
    ELSE Some(NearbyFrom(rounding, chunks_within_distance(rounding, pos, radius),
                         epos, pos, radius))

EntityPositions ==
    {None} \cup {Some(<<x, y, z>>) : x \in NeCoords, y \in {0, 2}, z \in {-1, 0}}

NeInputs ==
    [rounding : {"floor", "zero"},
     pos : {<<x, 0, z>> : x \in NeCoords, z \in {0, 1}},
     radius : {<<rx, 1, rz>> : rx \in NeRadii \cup {-1}, rz \in {0, 1}},
     epos : [Entities -> EntityPositions]]

\* The variables of Spec, at rest.
RegistryIdle ==
    /\ STATE_DATA = <<>>
    /\ PROPERTY_DATA = <<>>
    /\ REGISTRY = LazyNew
    /\ pc = [t \in Threads |-> "start"]
    /\ built = [t \in Threads |-> None]
    /\ builds = 0
    /\ observed = {}
    /\ handle = None
    /\ origin = "none"
    /\ ret = NoRet

InitNearby ==
    /\ RegistryIdle
    /\ debug_assertions = FALSE
    /\ ne_in \in NeInputs
    /\ ne_out = None
    /\ sb_in = SbIdle /\ sb_out = None
    /\ ev = EvIdle /\ ev_out = EvNoOut
    /\ new_out = None

\* The call: ne_out holds Some(result), the result being None for a panic.
CallNearbyEntities ==
    /\ ne_out = None
    /\ ne_out' = Some(nearby_entities(ne_in.rounding, ne_in.epos, ne_in.pos, ne_in.radius))
    /\ UNCHANGED <<regVars, debug_assertions, ne_in, sbVars, evVars, new_out>>

NextNearby == CallNearbyEntities

SpecNearby == InitNearby /\ [][NextNearby]_vars

\* C9: with a non-negative radius, nearby_entities returns exactly the
\* entities whose position lies in the box around pos, wherever pos lies
\* with respect to the chunk boundaries.
C9_ReturnsAllWithinDistance ==
    (ne_out # None /\ ne_out[1] # None) =>
        \A e \in Entities :
            InBox(ne_in.epos, e, ne_in.pos, ne_in.radius)
            <=> (\E i \in 1..Len(ne_out[1][1]) : ne_out[1][1][i] = e)

(***************************************************************************)
(* iter_section_blocks (feather/common/src/events/block_change.rs).        *)
(***************************************************************************)
MaxChunk == 1        \* chunk coordinates lie in -MaxChunk..MaxChunk, and
                     \* two more where chunk * 16 leaves i32
MaxSection == 2      \* section indices lie in 0..MaxSection, and two more
                     \* where the block height leaves the valid range

SECTION_WIDTH == 16
SECTION_VOLUME == SECTION_WIDTH * SECTION_WIDTH * SECTION_WIDTH

\* i32.  The model checker's own integers are 32 bits wide, so the wrapped
\* results are computed without leaving that range.
I32Max == (2^30 - 1) + 2^30
I32Min == -I32Max - 1

\* c * 16 in i32: the product wraps iff c is outside -2^27 .. 2^27 - 1.
Mul16Overflows(c) == c < -(2^27) \/ c >= 2^27
Mul16Wrapped(c) ==
    LET r == c % 2^28
    IN (IF r >= 2^27 THEN r - 2^28 ELSE r) * 16

\* d + m in i32, for 0 <= d < 16.
AddOverflows(d, m) == m > I32Max - d
AddWrapped(d, m) ==
    IF AddOverflows(d, m) THEN I32Min + (d - (I32Max - m) - 1) ELSE d + m

\* `section as i32`.  Sections from 2^31 on, which the cast makes negative,
\* are beyond the integers of the model checker; below, the cast keeps the
\* value.
AsI32(section) == section

\* BlockPosition::valid, which the conversion to ValidBlockPosition checks:
\* x and z in 26 bits, y in 12 bits.
BlockPosition_valid(x, y, z) ==
    /\ -(2^25) <= x /\ x < 2^25
    /\ -(2^11) <= y /\ y < 2^11
    /\ -(2^25) <= z /\ z < 2^25

\* d + c * 16 in i32: the wrapped value, and whether it overflowed.
OffsetCoord(d, c) ==
    [val |-> AddWrapped(d, Mul16Wrapped(c)),
     overflow |-> Mul16Overflows(c) \/ AddOverflows(d, Mul16Wrapped(c))]

\* Variant: z is computed from chunk.x.
SectionBlock_ZFromX(chunk, section, dx, dy, dz) ==
    [x |-> OffsetCoord(dx, chunk[1]),
     y |-> OffsetCoord(dy, AsI32(section)),
     z |-> OffsetCoord(dz, chunk[1])]

\* The closure of the final map: the coordinates of the block at offset
\* (dx, dy, dz) of the section.
SectionBlock(chunk, section, dx, dy, dz) ==
    [x |-> OffsetCoord(dx, chunk[1]),
     y |-> OffsetCoord(dy, AsI32(section)),
     z |-> OffsetCoord(dz, chunk[2])]

\* The i-th item of the two flat_maps over 0..16: x outermost, z innermost.
SectionOffset(i) ==
    <<(i - 1) \div (SECTION_WIDTH * SECTION_WIDTH),
      ((i - 1) \div SECTION_WIDTH) % SECTION_WIDTH,
      (i - 1) % SECTION_WIDTH>>

\* Whether producing the block panics: an overflow in a debug build, or the
\* unwrap of a position that is not valid.
SectionBlockPanics(b, debug) ==
    \/ debug /\ (b.x.overflow \/ b.y.overflow \/ b.z.overflow)
    \/ ~BlockPosition_valid(b.x.val, b.y.val, b.z.val)

\* iter_section_blocks, collected: None when producing a block panics.
iter_section_blocks(chunk, section, debug) ==
    LET blocks == [i \in 1..SECTION_VOLUME |->
                      SectionBlock(chunk, section, SectionOffset(i)[1],
                                   SectionOffset(i)[2], SectionOffset(i)[3])]
    IN IF \E i \in 1..SECTION_VOLUME : SectionBlockPanics(blocks[i], debug)
       THEN None
       ELSE Some([i \in 1..SECTION_VOLUME |->
                     <<blocks[i].x.val, blocks[i].y.val, blocks[i].z.val>>])

ChunkCoords == ((-MaxChunk)..MaxChunk) \cup {2^27, -(2^27) - 1}
Sections == (0..MaxSection) \cup {2^7, 2^27}

SbInputs == [chunk : ChunkCoords \X ChunkCoords, section : Sections]

InitSection ==
    /\ RegistryIdle
    /\ debug_assertions \in BOOLEAN
    /\ ne_in = NeIdle /\ ne_out = None
    /\ sb_in \in SbInputs
    /\ sb_out = None
    /\ ev = EvIdle /\ ev_out = EvNoOut
    /\ new_out = None

\* The call: sb_out holds Some(result), the result being None for a panic.
CallIterSectionBlocks ==
    /\ sb_out = None
    /\ sb_out' = Some(iter_section_blocks(sb_in.chunk, sb_in.section, debug_assertions))
    /\ UNCHANGED <<regVars, debug_assertions, neVars, sb_in, evVars, new_out>>

NextSection == CallIterSectionBlocks

SpecSection == InitSection /\ [][NextSection]_vars

\* The cube of the section, in unbounded integers.
SectionCube(chunk, section) ==
    {<<x, y, z>> : x \in (16 * chunk[1])..(16 * chunk[1] + 15),
                   y \in (16 * section)..(16 * section + 15),
                   z \in (16 * chunk[2])..(16 * chunk[2] + 15)}

SeqRange(q) == {q[i] : i \in 1..Len(q)}

YieldsTheCube ==
    /\ sb_out[1] # None
    /\ Len(sb_out[1][1]) = SECTION_VOLUME
    /\ Cardinality(SeqRange(sb_out[1][1])) = SECTION_VOLUME
    /\ SeqRange(sb_out[1][1]) = SectionCube(sb_in.chunk, sb_in.section)

CubeIsValid(chunk, section) ==
    /\ -(2^21) <= chunk[1] /\ chunk[1] < 2^21
    /\ -(2^7) <= section /\ section < 2^7
    /\ -(2^21) <= chunk[2] /\ chunk[2] < 2^21

SECTION_HEIGHT == 16

\* BlockChangeEvent::single: changes = BlockChanges::Single { pos }.
single(pos) ==
    [variant |-> "single", pos |-> pos, chunk |-> <<0, 0>>, section |-> 0]

\* BlockChangeEvent::fill_chunk_section:
\* changes = BlockChanges::FillChunkSection { chunk, section }.
fill_chunk_section(chunk, section) ==
    [variant |-> "fill", pos |-> <<0, 0, 0>>, chunk |-> chunk, section |-> section]

\* ValidBlockPosition::chunk: the chunk column holding the block.
pos_chunk(pos) == <<pos[1] \div CHUNK_WIDTH, pos[3] \div CHUNK_WIDTH>>

\* `v as usize` for a 32-bit v. A usize is kept as [wrapped, val] standing
\* for val + (IF wrapped THEN 2^usize::BITS ELSE 0): a negative i32 is
\* sign-extended and lands 2^usize::BITS above its value.
AsUsize(v) == [wrapped |-> v < 0, val |-> v]

\* usize division by a power of two d <= 2^4; [wrapped, val] then stands
\* for val + (IF wrapped THEN 2^usize::BITS / d ELSE 0).
UsizeDiv(u, d) == [wrapped |-> u.wrapped, val |-> u.val \div d]

count_AlwaysOne(e) == 1

\* BlockChangeEvent::count.
count(e) == IF e.variant = "single" THEN 1 ELSE SECTION_VOLUME

\* BlockChangeEvent::iter_changed_blocks, run to its end: Some(sequence of
\* positions), or None where the iteration panics.
iter_changed_blocks(e, debug) ==
    IF e.variant = "single"
    THEN Some(<<e.pos>>)
    ELSE iter_section_blocks(e.chunk, e.section, debug)

\* BlockChangeEvent::iter_affected_chunk_sections, run to its end: the
\* sequence of (chunk, section_y, num_changed_blocks).
iter_affected_chunk_sections(e) ==
    IF e.variant = "single"
    THEN << <<pos_chunk(e.pos), UsizeDiv(AsUsize(e.pos[2]), SECTION_HEIGHT), 1>> >>
    ELSE << <<e.chunk, AsUsize(e.section), SECTION_VOLUME>> >>

(***************************************************************************)
(* Specification SpecEvent: an event is created by one of the two          *)
(* constructors and then read by the three readers, in any order.          *)
(***************************************************************************)
EvXs == {-17, -1, 0, 5, MaxCoord}
EvYs == {-(2^11), -1, 0, 15, 16, 64, 2^11 - 1}
EvZs == {-16, 9}
EvPositions ==
    {p \in EvXs \X EvYs \X EvZs : BlockPosition_valid(p[1], p[2], p[3])}
EvChunks == {<<c, -1>> : c \in ChunkCoords}

InitEvent ==
    /\ RegistryIdle
    /\ debug_assertions \in BOOLEAN
    /\ ne_in = NeIdle /\ ne_out = None
    /\ sb_in = SbIdle /\ sb_out = None
    /\ ev = EvIdle /\ ev_out = EvNoOut
    /\ new_out = None

evFrame == UNCHANGED <<regVars, debug_assertions, neVars, sbVars, new_out>>

NewSingle ==
    /\ ev = EvIdle
    /\ \E pos \in EvPositions : ev' = single(pos)
    /\ UNCHANGED ev_out
    /\ evFrame

NewFillChunkSection ==
    /\ ev = EvIdle
    /\ \E chunk \in EvChunks, section \in Sections :
          ev' = fill_chunk_section(chunk, section)
    /\ UNCHANGED ev_out
    /\ evFrame

CallCount ==
    /\ ev # EvIdle
    /\ ev_out.count = None
    /\ ev_out' = [ev_out EXCEPT !.count = Some(count(ev))]
    /\ UNCHANGED ev
    /\ evFrame

\* ev_out.changed holds Some(result), the result being None for a panic.
CallIterChangedBlocks ==
    /\ ev # EvIdle
    /\ ev_out.changed = None
    /\ ev_out' = [ev_out EXCEPT
                     !.changed = Some(iter_changed_blocks(ev, debug_assertions))]
    /\ UNCHANGED ev
    /\ evFrame

CallIterAffectedChunkSections ==
    /\ ev # EvIdle
    /\ ev_out.affected = None
    /\ ev_out' = [ev_out EXCEPT
                     !.affected = Some(iter_affected_chunk_sections(ev))]
    /\ UNCHANGED ev
    /\ evFrame

NextEvent ==
    \/ NewSingle
    \/ NewFillChunkSection
    \/ CallCount
    \/ CallIterChangedBlocks
    \/ CallIterAffectedChunkSections

SpecEvent == InitEvent /\ [][NextEvent]_vars

RECURSIVE SumChanged(_)
SumChanged(q) == IF q = <<>> THEN 0 ELSE q[1][3] + SumChanged(Tail(q))

AllRead ==
    /\ ev_out.count # None
    /\ ev_out.changed # None
    /\ ev_out.affected # None

\* count() against the two iterators, for an event whose iteration ends.
CountsAgree ==
    /\ ev_out.changed[1] # None
    /\ ev_out.count[1] = Len(ev_out.changed[1][1])
    /\ ev_out.count[1] = SumChanged(ev_out.affected[1])

UntypedKey(row) == <<namespaced_id_of(row.kind), row.untyped_properties>>

\* Both maps send the key of row i to i.
MapsInvertRows(reg) ==
    \A i \in 1..Len(reg.states) :
        LET row == reg.states[i] IN
        /\ row.properties \in DOMAIN reg.id_mapping
        /\ reg.id_mapping[row.properties] = i - 1
        /\ UntypedKey(row) \in DOMAIN reg.by_untyped_repr
        /\ reg.by_untyped_repr[UntypedKey(row)] = i - 1

\* Neither map lost an entry to a key shared by two rows.
MapsHaveOneEntryPerRow(reg) ==
    /\ Cardinality(DOMAIN reg.id_mapping) = Len(reg.states)
    /\ Cardinality(DOMAIN reg.by_untyped_repr) = Len(reg.states)

\* The typed and the untyped lookup of every row agree.
LookupsAgree(reg) ==
    \A i \in 1..Len(reg.states) :
        LET row == reg.states[i] IN
        /\ id_for_state(reg, row.properties) = Some(i - 1)
        /\ id_for_untyped_repr(reg, namespaced_id_of(row.kind),
                               row.untyped_properties) = Some(i - 1)

\* C12: in the constructed registry id_mapping and by_untyped_repr send the
\* typed properties and the (namespaced id, property strings) of row i to
\* i, each map has as many entries as there are rows, and the state that
\* set_data reaches through the typed lookup is the one the untyped lookup
\* of its namespaced id and property strings returns.
C12_MapsAreInversesOfRows ==
    Lazy_is_complete(REGISTRY) =>
        /\ MapsInvertRows(Reg)
        /\ MapsHaveOneEntryPerRow(Reg)
        /\ LookupsAgree(Reg)
        /\ (ret.op = "set_data" /\ ret.tag = "unit") =>
              /\ handle # None
              /\ raw(Reg, handle[1]) # None
              /\ from_raw(Reg, raw(Reg, handle[1])[1].properties) = handle
              /\ from_namespaced_id_and_property_values(
                     Reg, namespaced_id(Reg, handle[1])[1],
                     property_values(Reg, handle[1])[1]) = handle

\* set_data has moved a handle to another state in a registry of two
\* kinds whose rows share their property strings.
C12_Witness ==
    /\ Lazy_is_complete(REGISTRY)
    /\ ret.op = "set_data" /\ ret.tag = "unit"
    /\ handle # ret.pre
    /\ \E i, j \in 1..Len(Reg.states) :
          /\ Reg.states[i].kind # Reg.states[j].kind
          /\ Reg.states[i].untyped_properties = Reg.states[j].untyped_properties

(***************************************************************************)
(* The untyped lookup and the order of the pairs (Spec).                   *)
(***************************************************************************)
PairSet(q) == {q[i] : i \in 1..Len(q)}

\* The same pairs in another order.
IsReorderOf(pairs, stored) ==
    /\ pairs # stored
    /\ Len(pairs) = Len(stored)
    /\ PairSet(pairs) = PairSet(stored)

IsStrictSubsetOf(pairs, stored) ==
    PairSet(pairs) \subseteq PairSet(stored) /\ PairSet(pairs) # PairSet(stored)

IsStrictSupersetOf(pairs, stored) == IsStrictSubsetOf(stored, pairs)

\* The rows whose stored representation is exactly (nsid, pairs).
RowsStoredAs(reg, nsid, pairs) ==
    {i \in 1..Len(reg.states) : UntypedKey(reg.states[i]) = <<nsid, pairs>>}

\* C13: from_namespaced_id_and_property_values matches the pairs as an
\* ordered sequence: for a state with two or more properties the same
\* pairs in another order, a strict subset or a strict superset of them
\* give None unless that sequence is itself the stored representation of
\* a state of the same kind, and a state that is returned is stored under
\* exactly the namespaced id and the sequence passed.
C13_LookupMatchesOrderedSequence ==
    (Lazy_is_complete(REGISTRY) /\ ret.op = "from_namespaced") =>
        /\ \A i \in 1..Len(Reg.states) :
              LET stored == Reg.states[i].untyped_properties IN
              ( /\ namespaced_id_of(Reg.states[i].kind) = ret.nsid
                /\ Len(stored) >= 2
                /\ \/ IsReorderOf(ret.pairs, stored)
                   \/ IsStrictSubsetOf(ret.pairs, stored)
                   \/ IsStrictSupersetOf(ret.pairs, stored)
                /\ RowsStoredAs(Reg, ret.nsid, ret.pairs) = {} )
              => ret.tag = "none"
        /\ ret.tag = "some" =>
              /\ ret.val < Len(Reg.states)
              /\ UntypedKey(Reg.states[ret.val + 1]) = <<ret.nsid, ret.pairs>>
              /\ handle = Some(ret.val)

\* The lookup was given the pairs of a two-property state in the other
\* order, and returned None.
C13_Witness ==
    /\ Lazy_is_complete(REGISTRY)
    /\ ret.op = "from_namespaced"
    /\ ret.tag = "none"
    /\ \E i \in 1..Len(Reg.states) :
          /\ namespaced_id_of(Reg.states[i].kind) = ret.nsid
          /\ Len(Reg.states[i].untyped_properties) >= 2
          /\ IsReorderOf(ret.pairs, Reg.states[i].untyped_properties)

(***************************************************************************)
(* Specification SpecNew: BlockRegistry::new on decoded tables in which    *)
(* the stored id of one row may differ from its index.                     *)
(***************************************************************************)
\* The table with the stored id of row i replaced.
WithId(states, i, v) == [states EXCEPT ![i].id = v]

InitNew ==
    /\ \E ds \in Bundles :
          /\ \E i \in 1..Len(GenStates(ds)), v \in 0..MaxId :
                STATE_DATA = WithId(GenStates(ds), i, v)
          /\ PROPERTY_DATA = GenProperties(ds)
    /\ debug_assertions \in BOOLEAN
    /\ REGISTRY = LazyNew
    /\ pc = [t \in Threads |-> "start"]
    /\ built = [t \in Threads |-> None]
    /\ builds = 0
    /\ observed = {}
    /\ handle = None
    /\ origin = "none"
    /\ ret = NoRet
    /\ ne_in = NeIdle /\ ne_out = None
    /\ sb_in = SbIdle /\ sb_out = None
    /\ ev = EvIdle /\ ev_out = EvNoOut
    /\ new_out = None

\* The call: new_out holds Some(result), the result being None for a panic.
CallNew ==
    /\ new_out = None
    /\ new_out' = Some(BlockRegistry_new(STATE_DATA, PROPERTY_DATA, debug_assertions))
    /\ UNCHANGED <<regVars, debug_assertions, neVars, sbVars, evVars>>

NextNew == CallNew

SpecNew == InitNew /\ [][NextNew]_vars

\* Every id a map of the registry stores is the index of a row the entry
\* was built from.
MapsIndexTheirRows(reg) ==
    /\ \A k \in DOMAIN reg.id_mapping :
          /\ reg.id_mapping[k] < Len(reg.states)
          /\ reg.states[reg.id_mapping[k] + 1].properties = k
    /\ \A k \in DOMAIN reg.default_states :
          /\ reg.default_states[k] < Len(reg.states)
          /\ reg.states[reg.default_states[k] + 1].kind = k
          /\ reg.states[reg.default_states[k] + 1].default
    /\ \A k \in DOMAIN reg.by_untyped_repr :
          /\ reg.by_untyped_repr[k] < Len(reg.states)
          /\ UntypedKey(reg.states[reg.by_untyped_repr[k] + 1]) = k

\* The registry that is returned has states[i].id == i and maps that index
\* their rows.
ReturnedIsConsistent ==
    new_out[1] # None =>
        /\ new_out[1][1].states = STATE_DATA
        /\ \A i \in 1..Len(new_out[1][1].states) : new_out[1][1].states[i].id = i - 1
        /\ MapsIndexTheirRows(new_out[1][1])

\* C14 as stated: on a table in which the stored id of some row differs
\* from its index BlockRegistry::new panics instead of returning a
\* registry, so that every registry it returns has states[i].id == i for
\* all i and maps whose ids index the rows they were built from.
C14_MismatchedTableIsRejected ==
    new_out # None =>
        /\ ~IndexesMatchIds(STATE_DATA) => new_out[1] = None
        /\ ReturnedIsConsistent

\* C14 as amended: in a build with debug assertions BlockRegistry::new
\* panics on such a table, so that every registry it returns has
\* states[i].id == i and maps whose ids index their rows; in a build
\* without them the check is compiled out and every table is accepted as
\* it is, a table whose ids match still giving a consistent registry.
C14_MismatchedTableIsRejectedInDebug ==
    new_out # None =>
        IF debug_assertions
        THEN /\ ~IndexesMatchIds(STATE_DATA) => new_out[1] = None
             /\ IndexesMatchIds(STATE_DATA) => new_out[1] # None
             /\ ReturnedIsConsistent
        ELSE /\ new_out[1] # None
             /\ new_out[1][1].states = STATE_DATA
             /\ IndexesMatchIds(STATE_DATA) => ReturnedIsConsistent

\* A debug build has rejected a table whose first row is in order and a
\* later row is not.
C14_Witness ==
    /\ new_out # None
    /\ new_out[1] = None
    /\ debug_assertions
    /\ Len(STATE_DATA) >= 2
    /\ STATE_DATA[1].id = 0
    /\ ~IndexesMatchIds(STATE_DATA)

====
